---- MODULE Spec2Model ----
(***************************************************************************)
(* The attribute subsystem of libsrc4 (nc4attr.c) over the NCindex         *)
(* list+hashmap (ncindex.c): one open file with its root group, the root   *)
(* group's global attributes and one variable (varid 0) with its           *)
(* attributes.                                                             *)
(***************************************************************************)
EXTENDS Integers, Sequences, FiniteSets, TLC

VARIABLES
    NCIUSEHASH, \* build flag of ncindex.c: TRUE = hashed lookup, FALSE = linear search
    h5,         \* NC_HDF5_FILE_INFO_T: flags, cmode, no_write, fileinfo
    list,       \* varid -> NClist of NC_ATT_INFO_T (NCindex.list)
    map,        \* varid -> NC_hashmap (NCindex.map)
    var,        \* NC_VAR_INFO_T of varid 0
    store,      \* attributes present in the HDF5 file: set of <<varid, name>>
    last        \* the last API call: its arguments, return value and outputs

vars == <<NCIUSEHASH, h5, list, map, var, store, last>>

-----------------------------------------------------------------------------
(* Bounds of the model *)

MaxAtts == 3        \* attributes per container
MaxLen == 2         \* elements per attribute payload
MaxTombs == 2       \* DELETED entries of a hash table before it is rebuilt

-----------------------------------------------------------------------------
(* Program constants *)

NC_GLOBAL == -1
NC_NAT == 0
NC_BYTE == 1
NC_CHAR == 2
NC_INT == 4
NC_DOUBLE == 6
NC_UBYTE == 7
NC_STRING == 12
NC_VLEN == 13
VLEN_T == 32        \* a user-defined variable-length type of base NC_INT
DFALTTABLESIZE == 7

EMPTY == 0
ACTIVE == 1
DELETED == 2

_FillValue == "_FillValue"
NCPROPS == "_NCProperties"
ISNETCDF4ATT == "_IsNetcdf4"
SUPERBLOCKATT == "_SuperblockVersion"

Varids == {NC_GLOBAL, 0}

(* A NULL pointer to an array is the empty sequence; a NULL char* element  *)
(* of a string array is NULLSTR.                                           *)
NULL == << >>
NULLSTR == "(null)"
NOATT == -1          \* ncindexlookup/ncindexith returning NULL

Crashes == {"SIGSEGV", "SIGABRT"}

-----------------------------------------------------------------------------
(* Names: the name validator and normalizer (external collaborator) *)

\* "a_nfd" is a valid name that is not in normal form; "b/d" is not a valid name.
nc4_normalize_name(name) == IF name = "a_nfd" THEN "a" ELSE name

nc4_check_name(name) == IF name = "b/d" THEN "NC_EBADNAME" ELSE "NC_NOERR"

strlen(s) == Len(s)

\* NC_findreserved(name) != NULL && (ra->flags & NAMEONLYFLAG)
NC_findreserved(name) == name \in {NCPROPS, ISNETCDF4ATT, SUPERBLOCKATT}

-----------------------------------------------------------------------------
(* Types: the type oracle *)

nc4typelen(t) ==
    CASE t \in {NC_BYTE, NC_CHAR, NC_UBYTE} -> 1
      [] t = NC_INT -> 4
      [] t = NC_DOUBLE -> 8
      [] t = NC_STRING -> 8
      [] OTHER -> 16

nc4_get_typeclass(t) ==
    CASE t = VLEN_T -> NC_VLEN
      [] t = NC_STRING -> NC_STRING
      [] t = NC_CHAR -> NC_CHAR
      [] OTHER -> NC_INT

TypeMin(t) ==
    CASE t = NC_BYTE -> -128
      [] t \in {NC_UBYTE, NC_CHAR} -> 0
      [] OTHER -> -2147483647 - 1

TypeMax(t) ==
    CASE t = NC_BYTE -> 127
      [] t \in {NC_UBYTE, NC_CHAR} -> 255
      [] OTHER -> 2147483647

\* The C cast of v to the integer type t: wraps modulo the width.
Cast(v, t) ==
    IF t \in {NC_BYTE, NC_UBYTE, NC_CHAR}
    THEN LET m == v % 256
         IN IF t = NC_BYTE /\ m > 127 THEN m - 256 ELSE m
    ELSE v

\* nc4_convert_type: element-wise cast, range_error set when a value does not fit
nc4_convert_type(src, dest_type) ==
    [data |-> [i \in 1..Len(src) |-> Cast(src[i], dest_type)],
     range_error |-> \E i \in 1..Len(src) :
                        src[i] < TypeMin(dest_type) \/ src[i] > TypeMax(dest_type)]

-----------------------------------------------------------------------------
(* NClist *)

nclistlength(l) == Len(l)

\* nclistget: NULL when out of range; objects are denoted by their position
nclistget(l, i) == IF i >= 0 /\ i < Len(l) THEN i ELSE NOATT

nclistpush(l, obj) == Append(l, obj)

nclistremove(l, i) == [k \in 1..(Len(l) - 1) |-> IF k <= i THEN l[k] ELSE l[k + 1]]

-----------------------------------------------------------------------------
(* NC_hashmap: open addressing, linear probing, tombstones *)

EmptySlot == [flags |-> EMPTY, key |-> "", data |-> 0]

NC_hashmapnew(size) ==
    [alloc |-> size, active |-> 0, table |-> [i \in 0..(size - 1) |-> EmptySlot]]

\* NC_hashmapkey: a small hash with collisions ("a" and "b", "c" and "_FillValue")
NC_hashmapkey(key) ==
    CASE key \in {"a", "b"} -> 3
      [] key \in {"c", _FillValue} -> 5
      [] key = NCPROPS -> 6
      [] OTHER -> strlen(key)

\* The slot where the probe for key ends: an ACTIVE slot holding key, or the
\* first EMPTY slot on the probe path; -1 when the whole table was probed.
RECURSIVE locate(_, _, _, _)
locate(hm, key, which, n) ==
    IF n = hm.alloc THEN -1
    ELSE LET e == hm.table[which]
         IN IF e.flags = EMPTY THEN which
            ELSE IF e.flags = ACTIVE /\ e.key = key THEN which
            ELSE locate(hm, key, (which + 1) % hm.alloc, n + 1)

hashslot(hm, key) ==
    IF hm.alloc = 0 THEN -1 ELSE locate(hm, key, NC_hashmapkey(key) % hm.alloc, 0)

\* insert without growth
hashput(hm, data, key) ==
    LET s == hashslot(hm, key)
    IN IF s = -1 THEN hm
       ELSE [hm EXCEPT !.table[s] = [flags |-> ACTIVE, key |-> key, data |-> data],
                       !.active = IF hm.table[s].flags = ACTIVE THEN @ ELSE @ + 1]

\* full rehash into a larger table, dropping tombstones
RECURSIVE reinsert(_, _, _)
reinsert(hm, old, i) ==
    IF i = old.alloc THEN hm
    ELSE reinsert(IF old.table[i].flags = ACTIVE
                  THEN hashput(hm, old.table[i].data, old.table[i].key)
                  ELSE hm, old, i + 1)

rehash(hm) == reinsert(NC_hashmapnew(2 * hm.alloc + 1), hm, 0)

NC_hashmapadd(hm, data, key) ==
    hashput(IF (hm.alloc * 3) \div 4 <= hm.active THEN rehash(hm) ELSE hm, data, key)

\* [found, data]
NC_hashmapget(hm, key) ==
    LET s == hashslot(hm, key)
    IN IF s # -1 /\ hm.table[s].flags = ACTIVE
       THEN [found |-> TRUE, data |-> hm.table[s].data]
       ELSE [found |-> FALSE, data |-> 0]

\* a deactivation that returns the entry to EMPTY instead of marking it
NC_hashmapdeactivate_to_empty(hm, data) ==
    LET hits == {i \in 0..(hm.alloc - 1) :
                    hm.table[i].flags = ACTIVE /\ hm.table[i].data = data}
    IN IF hits = {} THEN [ok |-> FALSE, map |-> hm]
       ELSE LET s == CHOOSE i \in hits : \A j \in hits : i <= j
            IN [ok |-> TRUE,
                map |-> [hm EXCEPT !.table[s] = EmptySlot, !.active = @ - 1]]

\* mark the first active entry whose data is the given one as DELETED
NC_hashmapdeactivate(hm, data) ==
    LET hits == {i \in 0..(hm.alloc - 1) :
                    hm.table[i].flags = ACTIVE /\ hm.table[i].data = data}
    IN IF hits = {} THEN [ok |-> FALSE, map |-> hm]
       ELSE LET s == CHOOSE i \in hits : \A j \in hits : i <= j
            IN [ok |-> TRUE,
                map |-> [hm EXCEPT !.table[s] = [flags |-> DELETED, key |-> "", data |-> 0],
                                   !.active = @ - 1]]

-----------------------------------------------------------------------------
(* NCindex: an index is the record [list, map] *)

\* Locate object by name; returns its position in the vector or NOATT
ncindexlookup(ix, name) ==
    IF NCIUSEHASH
    THEN LET r == NC_hashmapget(ix.map, name)
         IN IF ~r.found THEN NOATT ELSE nclistget(ix.list, r.data)
    ELSE LET hits == {i \in 0..(Len(ix.list) - 1) : ix.list[i + 1].name = name}
         IN IF hits = {} THEN NOATT
            ELSE CHOOSE i \in hits : \A j \in hits : i <= j

ncindexith(ix, i) == nclistget(ix.list, i)

ncindexsize(ix) == nclistlength(ix.list)

\* Add object to the end of the vector, also insert into the hashmap
ncindexadd(ix, obj) ==
    LET l == nclistpush(ix.list, obj)
    IN [list |-> l,
        map |-> IF NCIUSEHASH
                THEN NC_hashmapadd(ix.map, nclistlength(l), obj.name)
                ELSE ix.map]

\* Remove object from index by position in the vector: [ok, ix]
ncindexidel(ix, i) ==
    IF nclistget(ix.list, i) = NOATT THEN [ok |-> FALSE, ix |-> ix]
    ELSE LET l == nclistremove(ix.list, i)
         IN IF NCIUSEHASH
            THEN LET d == NC_hashmapdeactivate(ix.map, i)
                 IN [ok |-> d.ok, ix |-> [list |-> l, map |-> d.map]]
            ELSE [ok |-> TRUE, ix |-> [list |-> l, map |-> ix.map]]

ncindexnew(size0) ==
    [list |-> << >>,
     map |-> NC_hashmapnew(IF size0 = 0 THEN DFALTTABLESIZE ELSE size0)]

\* flags & 1 and flags & 128 of a hash entry (int flags)
ActiveBit(e) == e.flags % 2 = 1

TouchedBit(e) == (e.flags \div 128) % 2 = 1

\* lines 471-487: map entries whose data is no vector position or whose key
\* differs from the name at that position, over all alloc slots
verify_map_errors(ix) ==
    Cardinality({m \in 0..(ix.map.alloc - 1) :
        /\ ActiveBit(ix.map.table[m])
        /\ \/ nclistget(ix.list, ix.map.table[m].data) = NOATT
           \/ ix.list[ix.map.table[m].data + 1].name # ix.map.table[m].key})

\* lines 493-513: walk the vector, mark the entries of the slots below
\* map->active whose key is the name; [table, nerrs]
RECURSIVE verify_walk(_, _, _, _)
verify_walk(ix, table, nerrs, i) ==
    IF i >= nclistlength(ix.list) THEN [table |-> table, nerrs |-> nerrs]
    ELSE LET hit == {m \in 0..(ix.map.active - 1) :
                        ActiveBit(table[m]) /\ table[m].key = ix.list[i + 1].name}
             again == Cardinality({m \in hit : TouchedBit(table[m])})
             marked == [m \in DOMAIN table |->
                           IF m \in hit THEN [table[m] EXCEPT !.flags = @ + 128]
                           ELSE table[m]]
         IN verify_walk(ix, marked,
                        nerrs + again + (IF hit = {} THEN 1 ELSE 0), i + 1)

\* lines 423-533 (dump = 0): [ret, ix]
ncindexverify(ix) ==
    IF ~NCIUSEHASH THEN [ret |-> 1, ix |-> ix]
    ELSE LET e1 == verify_map_errors(ix)
         IN IF nclistlength(ix.list) = 0 \/ ix.map.active = 0
            THEN [ret |-> IF e1 > 0 THEN 0 ELSE 1, ix |-> ix]
            ELSE LET w == verify_walk(ix, ix.map.table, e1, 0)
                     low == 0..(ix.map.active - 1)
                     \* lines 514-522: entries in hash, not in vector
                     e3 == Cardinality({m \in low : ActiveBit(w.table[m]) /\
                                                    ~TouchedBit(w.table[m])})
                     \* lines 523-527: clear the 'touched' flag
                     cleared == [m \in DOMAIN w.table |->
                                    IF m \in low /\ TouchedBit(w.table[m])
                                    THEN [w.table[m] EXCEPT !.flags = @ - 128]
                                    ELSE w.table[m]]
                 IN [ret |-> IF w.nerrs + e3 > 0 THEN 0 ELSE 1,
                     ix |-> [ix EXCEPT !.map.table = cleared]]

\* Rebuild the list map by rehashing all entries
RECURSIVE readd(_, _, _)
readd(ix, contents, i) ==
    IF i > Len(contents) THEN ix
    ELSE readd(ncindexadd(ix, contents[i]), contents, i + 1)

ncindexrehash(ix) ==
    IF NCIUSEHASH
    THEN readd(ncindexnew(nclistlength(ix.list)), ix.list, 1)
    ELSE ix

ncindexrebuild(ix) == ncindexrehash(ix)

-----------------------------------------------------------------------------
(* The program state threaded through one API call *)

St == [h5 |-> h5, list |-> list, map |-> map, var |-> var, store |-> store]

Ix(S, varid) == [list |-> S.list[varid], map |-> S.map[varid]]

SetIx(S, varid, ix) ==
    [S EXCEPT !.list[varid] = ix.list, !.map[varid] = ix.map]

\* the attribute at vector position p of a container
Att(S, varid, p) == S.list[varid][p + 1]

SetAtt(S, varid, p, a) == [S EXCEPT !.list[varid][p + 1] = a]

\* Get the attribute list for either a varid or NC_GLOBAL
getattlist(S, varid) == Ix(S, varid)

INDEF(S) == S.h5.flags_indef

CLASSIC(S) == S.h5.cmode_classic

\* NC4_redef: enter define mode
NC4_redef(S) == [S EXCEPT !.h5.flags_indef = TRUE]

\* nc4_att_list_add: a zeroed record named name, id = index size, appended
nc4_att_list_add(S, varid, name) ==
    LET ix == getattlist(S, varid)
        new_att == [name |-> name, id |-> ncindexsize(ix),
                    nc_typeid |-> NC_NAT, len |-> 0,
                    data |-> NULL, stdata |-> NULL, vldata |-> NULL,
                    dirty |-> FALSE, created |-> FALSE]
    IN SetIx(S, varid, ncindexadd(ix, new_att))

\* nc4_att_list_del: remove the attribute from the index and free it
nc4_att_list_del(S, varid, p) ==
    SetIx(S, varid, ncindexidel(getattlist(S, varid), Att(S, varid, p).id).ix)

Ret(S, r) == [ret |-> r, S |-> S]

-----------------------------------------------------------------------------
(* NC4_put_att *)

\* lines 840-922: copy the attribute data; returns [ret, S, range_error]
put_copy_data(S, varid, p, new_att, file_type, len, data, mem_type, fail) ==
    LET att == Att(S, varid, p)
        type_class == nc4_get_typeclass(file_type)
    IN IF att.len = 0 THEN [ret |-> "NC_NOERR", S |-> S, range_error |-> FALSE]
       ELSE IF type_class = NC_VLEN
       THEN IF fail = "malloc"
            THEN [ret |-> "NC_ENOMEM", S |-> S, range_error |-> FALSE]
            ELSE [ret |-> "NC_NOERR",
                  S |-> SetAtt(S, varid, p, [att EXCEPT !.vldata = data]),
                  range_error |-> FALSE]
       ELSE IF type_class = NC_STRING
       THEN IF fail = "malloc"
            THEN [ret |-> "NC_ENOMEM", S |-> S, range_error |-> FALSE]
            ELSE [ret |-> "NC_NOERR",
                  S |-> SetAtt(S, varid, p,
                               [att EXCEPT !.stdata = data,
                                           !.data = IF ~new_att THEN NULL ELSE @]),
                  range_error |-> FALSE]
       ELSE IF fail = "malloc"
            THEN [ret |-> "NC_ENOMEM",
                  S |-> SetAtt(S, varid, p, [att EXCEPT !.data = NULL]),
                  range_error |-> FALSE]
            ELSE LET c == nc4_convert_type(data, file_type)
                 IN [ret |-> "NC_NOERR",
                     S |-> SetAtt(S, varid, p, [att EXCEPT !.data = c.data]),
                     range_error |-> c.range_error]

\* lines 757-838: the _FillValue attribute of a variable.  var is NULL here
\* (line 618; getattlist does not set it), so line 766 reads through a NULL
\* pointer: the call either dies, or reads arbitrary values (ub.same_type,
\* ub.written_to) and its stores land outside the variable.
put_fill_value(S, varid, p, ub) ==
    LET att == Att(S, varid, p)
    IN IF ~(att.name = _FillValue /\ varid # NC_GLOBAL) THEN "NC_NOERR"
       ELSE IF ub.crash THEN "SIGSEGV"
       ELSE IF ~ub.same_type THEN "NC_EBADTYPE"
       ELSE IF att.len # 1 THEN "NC_EINVAL"
       ELSE IF ub.written_to THEN "NC_ELATEFILL"
       ELSE "NC_NOERR"

\* lines 734-755: fill in the metadata, release string and vlen data
put_metadata(S, varid, p, file_type, len) ==
    SetAtt(S, varid, p,
           [Att(S, varid, p) EXCEPT !.dirty = TRUE, !.nc_typeid = file_type,
                                    !.stdata = NULL, !.vldata = NULL, !.len = len])

\* lines 723-938, once the types are validated
put_store(S0, varid, norm_name, p0, new_att, file_type, len, data, mem_type, fail, ub) ==
    LET S1 == IF new_att THEN nc4_att_list_add(S0, varid, norm_name) ELSE S0
        p == IF new_att THEN Len(S1.list[varid]) - 1 ELSE p0
    IN IF new_att /\ fail = "calloc" THEN Ret(S0, "NC_ENOMEM")
       ELSE IF new_att /\ fail = "strdup" THEN Ret(S1, "NC_ENOMEM")
       ELSE LET S2 == put_metadata(S1, varid, p, file_type, len)
                fv == put_fill_value(S2, varid, p, ub)
            IN IF fv # "NC_NOERR" THEN Ret(S2, fv)
               ELSE LET c == put_copy_data(S2, varid, p, new_att, file_type, len,
                                           data, mem_type, fail)
                    IN IF c.ret # "NC_NOERR" THEN Ret(c.S, c.ret)
                       ELSE Ret(SetAtt(c.S, varid, p,
                                       [Att(c.S, varid, p) EXCEPT !.dirty = TRUE,
                                                                  !.created = FALSE]),
                                IF c.range_error THEN "NC_ERANGE" ELSE "NC_NOERR")

\* a type validation that lets every type into a classic-model file
put_check_types_any_model(S, file_type, mem_type) ==
    IF file_type = NC_NAT \/ mem_type = NC_NAT THEN "NC_EBADTYPE"
    ELSE IF file_type # mem_type /\
            (file_type = NC_CHAR \/ mem_type = NC_CHAR \/
             file_type = NC_STRING \/ mem_type = NC_STRING) THEN "NC_ECHAR"
    ELSE "NC_NOERR"

\* lines 704-721: We must have two valid types to continue
put_check_types(S, file_type, mem_type) ==
    IF file_type = NC_NAT \/ mem_type = NC_NAT THEN "NC_EBADTYPE"
    ELSE IF file_type # mem_type /\
            (file_type = NC_CHAR \/ mem_type = NC_CHAR \/
             file_type = NC_STRING \/ mem_type = NC_STRING) THEN "NC_ECHAR"
    ELSE IF CLASSIC(S) /\ file_type > NC_DOUBLE THEN "NC_ESTRICTNC3"
    ELSE "NC_NOERR"

\* lines 678-702: define mode; [ret, S]
put_define_mode(S, varid, p, file_type, len) ==
    LET grows == p # NOATT /\
                 len * nc4typelen(file_type) >
                    Att(S, varid, p).len * nc4typelen(Att(S, varid, p).nc_typeid)
    IN IF ~INDEF(S) /\ (p = NOATT \/ grows)
       THEN IF CLASSIC(S) THEN Ret(S, "NC_EINDEFINE")
            ELSE Ret(NC4_redef(S), "NC_NOERR")
       ELSE Ret(S, "NC_NOERR")

NC4_put_att(S, varid, name, file_type, len, data, mem_type, fail, ub) ==
    IF S.h5.no_write THEN Ret(S, "NC_EPERM")
    ELSE IF nc4_check_name(name) # "NC_NOERR" THEN Ret(S, nc4_check_name(name))
    ELSE IF varid = NC_GLOBAL /\ NC_findreserved(name) THEN Ret(S, "NC_ENAMEINUSE")
    ELSE LET norm_name == nc4_normalize_name(name)
             p == ncindexlookup(getattlist(S, varid), norm_name)
             d == put_define_mode(S, varid, p, file_type, len)
         IN IF d.ret # "NC_NOERR" THEN d
            ELSE IF put_check_types(d.S, file_type, mem_type) # "NC_NOERR"
            THEN Ret(d.S, put_check_types(d.S, file_type, mem_type))
            ELSE put_store(d.S, varid, norm_name, p, p = NOATT, file_type, len,
                           data, mem_type, fail, ub)

-----------------------------------------------------------------------------
(* nc4_get_att *)

\* the caller's output arguments before the call writes them
NoOut == [xtype |-> NC_NAT, len |-> -1, attnum |-> -1,
          data |-> NULL, stdata |-> NULL, vldata |-> NULL]

\* which output pointers the caller passes (non-NULL)
Want(xtypep, lenp, attnump, datap) ==
    [xtype |-> xtypep, len |-> lenp, attnum |-> attnump, data |-> datap]

GetRet(r, out) == [ret |-> r, out |-> out]

\* NC4_buildpropinfo: the provenance text built from the file's propattr
NC4_buildpropinfo(S) == <<118, S.h5.propattr_version>>

\* NC4_isnetcdf4
NC4_isnetcdf4(S) == S.h5.isnetcdf4

\* a special get that answers an id request like any other request
nc4_get_att_special_any_request(S, name, mem_type0, want) ==
    IF name = NCPROPS
    THEN LET mem_type == IF mem_type0 = NC_NAT THEN NC_CHAR ELSE mem_type0
             propdata == NC4_buildpropinfo(S)
         IN IF S.h5.propattr_version = 0 THEN GetRet("NC_ENOTATT", NoOut)
            ELSE IF mem_type # NC_CHAR THEN GetRet("NC_ECHAR", NoOut)
            ELSE GetRet("NC_NOERR",
                        [NoOut EXCEPT !.xtype = IF want.xtype THEN NC_CHAR ELSE @,
                                      !.len = IF want.len THEN Len(propdata) ELSE @,
                                      !.data = IF want.data THEN propdata ELSE @])
    ELSE LET iv == IF name = SUPERBLOCKATT THEN S.h5.superblockversion
                   ELSE NC4_isnetcdf4(S)
             mem_type == IF mem_type0 = NC_NAT THEN NC_INT ELSE mem_type0
             out == [NoOut EXCEPT !.xtype = IF want.xtype THEN NC_INT ELSE @,
                                  !.len = IF want.len THEN 1 ELSE @]
         IN IF ~want.data THEN GetRet("NC_NOERR", out)
            ELSE IF mem_type \in {NC_BYTE, NC_INT, NC_UBYTE}
            THEN GetRet("NC_NOERR", [out EXCEPT !.data = <<Cast(iv, mem_type)>>])
            ELSE GetRet("NC_ERANGE", out)

\* lines 43-93: Get special information about the attribute
nc4_get_att_special(S, name, mem_type0, want) ==
    IF want.attnum THEN GetRet("NC_EATTMETA", NoOut)
    ELSE IF name = NCPROPS
    THEN LET mem_type == IF mem_type0 = NC_NAT THEN NC_CHAR ELSE mem_type0
             propdata == NC4_buildpropinfo(S)
         IN IF S.h5.propattr_version = 0 THEN GetRet("NC_ENOTATT", NoOut)
            ELSE IF mem_type # NC_CHAR THEN GetRet("NC_ECHAR", NoOut)
            ELSE GetRet("NC_NOERR",
                        [NoOut EXCEPT !.xtype = IF want.xtype THEN NC_CHAR ELSE @,
                                      !.len = IF want.len THEN Len(propdata) ELSE @,
                                      !.data = IF want.data THEN propdata ELSE @])
    ELSE LET iv == IF name = SUPERBLOCKATT THEN S.h5.superblockversion
                   ELSE NC4_isnetcdf4(S)
             mem_type == IF mem_type0 = NC_NAT THEN NC_INT ELSE mem_type0
             out == [NoOut EXCEPT !.xtype = IF want.xtype THEN NC_INT ELSE @,
                                  !.len = IF want.len THEN 1 ELSE @]
         IN IF ~want.data THEN GetRet("NC_NOERR", out)
            ELSE IF mem_type \in {NC_BYTE, NC_INT, NC_UBYTE}
            THEN GetRet("NC_NOERR", [out EXCEPT !.data = <<Cast(iv, mem_type)>>])
            ELSE GetRet("NC_ERANGE", out)

\* nc4_find_grp_att: by name when a name is given (it always is in nc4_get_att)
nc4_find_grp_att(S, varid, name) == ncindexlookup(getattlist(S, varid), name)

\* a delivery that ignores range errors between the 8-bit types in every file
get_data_lenient_everywhere(S, att, mem_type, want, out) ==
    LET convert == want.data /\ att.len # 0 /\ mem_type # att.nc_typeid /\
                   mem_type # NC_NAT /\
                   ~(mem_type = NC_CHAR /\ att.nc_typeid \in {NC_UBYTE, NC_BYTE})
        numeric == /\ nc4_get_typeclass(att.nc_typeid) \in {NC_INT, NC_CHAR}
                   /\ nc4_get_typeclass(mem_type) \in {NC_INT, NC_CHAR}
        c == nc4_convert_type(att.data, mem_type)
        range_error == IF att.nc_typeid \in {NC_UBYTE, NC_BYTE} /\
                          mem_type \in {NC_UBYTE, NC_BYTE}
                       THEN FALSE ELSE c.range_error
        bufr == IF convert THEN c.data ELSE att.data
    IN IF convert /\ ~numeric THEN GetRet("NC_EBADTYPE", out)
       ELSE IF ~want.data
       THEN GetRet("NC_NOERR", out)
       ELSE IF att.vldata # NULL
       THEN GetRet(IF convert /\ range_error THEN "NC_ERANGE" ELSE "NC_NOERR",
                   [out EXCEPT !.vldata = att.vldata])
       ELSE IF att.stdata # NULL
       THEN GetRet(IF convert /\ range_error THEN "NC_ERANGE" ELSE "NC_NOERR",
                   [out EXCEPT !.stdata = att.stdata])
       ELSE IF bufr = NULL THEN GetRet("SIGSEGV", out)
       ELSE GetRet(IF convert /\ range_error THEN "NC_ERANGE" ELSE "NC_NOERR",
                   [out EXCEPT !.data = bufr])

\* lines 193-279: deliver the data of a non-empty attribute
get_data(S, att, mem_type, want, out) ==
    LET convert == want.data /\ att.len # 0 /\ mem_type # att.nc_typeid /\
                   mem_type # NC_NAT /\
                   ~(mem_type = NC_CHAR /\ att.nc_typeid \in {NC_UBYTE, NC_BYTE})
        numeric == /\ nc4_get_typeclass(att.nc_typeid) \in {NC_INT, NC_CHAR}
                   /\ nc4_get_typeclass(mem_type) \in {NC_INT, NC_CHAR}
        c == nc4_convert_type(att.data, mem_type)
        range_error == IF CLASSIC(S) /\ att.nc_typeid \in {NC_UBYTE, NC_BYTE} /\
                          mem_type \in {NC_UBYTE, NC_BYTE}
                       THEN FALSE ELSE c.range_error
        bufr == IF convert THEN c.data ELSE att.data
    IN IF convert /\ ~numeric THEN GetRet("NC_EBADTYPE", out)
       ELSE IF ~want.data
       THEN GetRet("NC_NOERR", out)
       ELSE IF att.vldata # NULL
       THEN GetRet(IF convert /\ range_error THEN "NC_ERANGE" ELSE "NC_NOERR",
                   [out EXCEPT !.vldata = att.vldata])
       ELSE IF att.stdata # NULL
       THEN GetRet(IF convert /\ range_error THEN "NC_ERANGE" ELSE "NC_NOERR",
                   [out EXCEPT !.stdata = att.stdata])
       ELSE IF bufr = NULL THEN GetRet("SIGSEGV", out)
       ELSE GetRet(IF convert /\ range_error THEN "NC_ERANGE" ELSE "NC_NOERR",
                   [out EXCEPT !.data = bufr])

\* a get that tests for text against numbers on empty attributes as well
nc4_get_att_echar_on_empty(S, varid, name, mem_type0, want) ==
    LET norm_name == nc4_normalize_name(name)
        p == nc4_find_grp_att(S, varid, norm_name)
    IN IF varid = NC_GLOBAL /\ NC_findreserved(norm_name)
       THEN nc4_get_att_special(S, norm_name, mem_type0, want)
       ELSE IF p = NOATT THEN GetRet("NC_ENOTATT", NoOut)
       ELSE LET att == Att(S, varid, p)
                mem_type == IF mem_type0 = NC_NAT THEN att.nc_typeid ELSE mem_type0
                out == [NoOut EXCEPT !.len = IF want.len THEN att.len ELSE @,
                                     !.xtype = IF want.xtype THEN att.nc_typeid ELSE @,
                                     !.attnum = IF want.attnum THEN att.id ELSE @]
            IN IF want.data /\
                  ((att.nc_typeid = NC_CHAR /\ mem_type # NC_CHAR) \/
                   (att.nc_typeid # NC_CHAR /\ mem_type = NC_CHAR))
               THEN GetRet("NC_ECHAR", NoOut)
               ELSE IF att.len = 0 THEN GetRet("NC_NOERR", out)
               ELSE get_data(S, att, mem_type, want, out)

\* a get that does not intercept the reserved names
nc4_get_att_stored_only(S, varid, name, mem_type0, want) ==
    LET norm_name == nc4_normalize_name(name)
        p == nc4_find_grp_att(S, varid, norm_name)
    IN IF p = NOATT THEN GetRet("NC_ENOTATT", NoOut)
       ELSE LET att == Att(S, varid, p)
                mem_type == IF mem_type0 = NC_NAT THEN att.nc_typeid ELSE mem_type0
                out == [NoOut EXCEPT !.len = IF want.len THEN att.len ELSE @,
                                     !.xtype = IF want.xtype THEN att.nc_typeid ELSE @,
                                     !.attnum = IF want.attnum THEN att.id ELSE @]
            IN IF want.data /\ att.len # 0 /\
                  ((att.nc_typeid = NC_CHAR /\ mem_type # NC_CHAR) \/
                   (att.nc_typeid # NC_CHAR /\ mem_type = NC_CHAR))
               THEN GetRet("NC_ECHAR", NoOut)
               ELSE IF att.len = 0 THEN GetRet("NC_NOERR", out)
               ELSE get_data(S, att, mem_type, want, out)

\* lines 113-280
nc4_get_att(S, varid, name, mem_type0, want) ==
    LET norm_name == nc4_normalize_name(name)
        p == nc4_find_grp_att(S, varid, norm_name)
    IN IF varid = NC_GLOBAL /\ NC_findreserved(norm_name)
       THEN nc4_get_att_special(S, norm_name, mem_type0, want)
       ELSE IF p = NOATT THEN GetRet("NC_ENOTATT", NoOut)
       ELSE LET att == Att(S, varid, p)
                mem_type == IF mem_type0 = NC_NAT THEN att.nc_typeid ELSE mem_type0
                out == [NoOut EXCEPT !.len = IF want.len THEN att.len ELSE @,
                                     !.xtype = IF want.xtype THEN att.nc_typeid ELSE @,
                                     !.attnum = IF want.attnum THEN att.id ELSE @]
            IN IF want.data /\ att.len # 0 /\
                  ((att.nc_typeid = NC_CHAR /\ mem_type # NC_CHAR) \/
                   (att.nc_typeid # NC_CHAR /\ mem_type = NC_CHAR))
               THEN GetRet("NC_ECHAR", NoOut)
               ELSE IF att.len = 0 THEN GetRet("NC_NOERR", out)
               ELSE get_data(S, att, mem_type, want, out)

\* lines 296-302
NC4_inq_att(S, varid, name) ==
    nc4_get_att(S, varid, name, NC_NAT, Want(TRUE, TRUE, FALSE, FALSE))

\* lines 315-320
NC4_inq_attid(S, varid, name) ==
    nc4_get_att(S, varid, name, NC_NAT, Want(FALSE, FALSE, TRUE, FALSE))

\* lines 953-957
NC4_get_att(S, varid, name, memtype) ==
    nc4_get_att(S, varid, name, memtype, Want(FALSE, FALSE, FALSE, TRUE))

\* lines 335-363: nc4_find_nc_att locates the attribute by number
NC4_inq_attname(S, varid, attnum) ==
    LET p == ncindexith(getattlist(S, varid), attnum)
    IN IF p = NOATT THEN [ret |-> "NC_ENOTATT", name |-> ""]
       ELSE [ret |-> "NC_NOERR", name |-> Att(S, varid, p).name]

-----------------------------------------------------------------------------
(* The HDF5 backend *)

\* H5Adelete(loc, name): fails when the file holds no such attribute or on an
\* I/O error (ioerr)
H5Adelete(S, varid, name, ioerr) ==
    IF ioerr \/ <<varid, name>> \notin S.store
    THEN [ok |-> FALSE, S |-> S]
    ELSE [ok |-> TRUE, S |-> [S EXCEPT !.store = @ \ {<<varid, name>>}]]

-----------------------------------------------------------------------------
(* NC4_rename_att, lines 400-494 *)

\* lines 477-493: copy the new name into the metadata and rebuild the index
rename_apply(S, varid, p, norm_newname) ==
    LET S1 == SetAtt(S, varid, p,
                     [Att(S, varid, p) EXCEPT !.name = norm_newname, !.dirty = TRUE])
    IN SetIx(S1, varid, ncindexrebuild(getattlist(S1, varid)))

NC4_rename_att(S, varid, name, newname, ioerr) ==
    IF S.h5.no_write THEN Ret(S, "NC_EPERM")
    ELSE IF nc4_check_name(newname) # "NC_NOERR" THEN Ret(S, nc4_check_name(newname))
    ELSE LET norm_newname == nc4_normalize_name(newname)
             norm_name == nc4_normalize_name(name)
             attlist == getattlist(S, varid)
             p == ncindexlookup(attlist, norm_name)
         IN IF ncindexlookup(attlist, norm_newname) # NOATT THEN Ret(S, "NC_ENAMEINUSE")
            ELSE IF p = NOATT THEN Ret(S, "NC_ENOTATT")
            ELSE IF ~INDEF(S) /\ strlen(norm_newname) > strlen(Att(S, varid, p).name) /\
                    CLASSIC(S)
            THEN Ret(S, "NC_ENOTINDEFINE")
            ELSE IF Att(S, varid, p).created
            THEN LET d == H5Adelete(S, varid, Att(S, varid, p).name, ioerr)
                 IN IF ~d.ok THEN Ret(S, "NC_EHDFERR")
                    ELSE Ret(rename_apply(
                                 SetAtt(d.S, varid, p,
                                        [Att(d.S, varid, p) EXCEPT !.created = FALSE]),
                                 varid, p, norm_newname), "NC_NOERR")
            ELSE Ret(rename_apply(S, varid, p, norm_newname), "NC_NOERR")

-----------------------------------------------------------------------------
(* NC4_del_att, lines 509-589 *)

\* lines 576-580: Renumber all attributes with higher indices
del_renumber(S, varid, deletedid) ==
    [S EXCEPT !.list[varid] =
        [i \in 1..Len(@) |-> IF @[i].id > deletedid
                             THEN [@[i] EXCEPT !.id = @ - 1] ELSE @[i]]]

\* lines 570-584: remove from the list, renumber, rebuild the index
del_remove(S, varid, p) ==
    LET deletedid == Att(S, varid, p).id
        S1 == del_renumber(nc4_att_list_del(S, varid, p), varid, deletedid)
    IN SetIx(S1, varid, ncindexrebuild(getattlist(S1, varid)))

\* a delete that never enters define mode by itself
del_define_mode_never_redef(S) ==
    IF ~INDEF(S) /\ CLASSIC(S) THEN Ret(S, "NC_ENOTINDEFINE") ELSE Ret(S, "NC_NOERR")

\* a delete that enters define mode whatever the model of the file
del_define_mode_always_redef(S) ==
    IF ~INDEF(S) THEN Ret(NC4_redef(S), "NC_NOERR") ELSE Ret(S, "NC_NOERR")

\* lines 538-545: If it's not in define mode, forget it
del_define_mode(S) ==
    IF ~INDEF(S)
    THEN IF CLASSIC(S) THEN Ret(S, "NC_ENOTINDEFINE") ELSE Ret(NC4_redef(S), "NC_NOERR")
    ELSE Ret(S, "NC_NOERR")

\* a delete that enters define mode ahead of the permission test
NC4_del_att_redef_before_perm(S, varid, name, ndebug) ==
    LET d == del_define_mode(S)
        p == ncindexlookup(getattlist(d.S, varid), name)
    IN IF d.ret # "NC_NOERR" THEN d
       ELSE IF d.S.h5.no_write THEN Ret(d.S, "NC_EPERM")
       ELSE IF p = NOATT THEN Ret(d.S, "NC_ENOTATT")
       ELSE IF Att(d.S, varid, p).created
       THEN IF ndebug THEN Ret(d.S, "NC_EATTMETA") ELSE Ret(d.S, "SIGABRT")
       ELSE Ret(del_remove(d.S, varid, p), "NC_NOERR")

\* ndebug: the build compiles assert() away.  locid is never set (line 517), so
\* for an attribute that is created the assert at line 563 fails, and without
\* the assert H5Adelete is handed the invalid location 0 and fails.
NC4_del_att(S, varid, name, ndebug) ==
    IF S.h5.no_write THEN Ret(S, "NC_EPERM")
    ELSE LET d == del_define_mode(S)
             p == ncindexlookup(getattlist(d.S, varid), name)
         IN IF d.ret # "NC_NOERR" THEN d
            ELSE IF p = NOATT THEN Ret(d.S, "NC_ENOTATT")
            ELSE IF Att(d.S, varid, p).created
            THEN IF ndebug THEN Ret(d.S, "NC_EATTMETA") ELSE Ret(d.S, "SIGABRT")
            ELSE Ret(del_remove(d.S, varid, p), "NC_NOERR")

-----------------------------------------------------------------------------
(* The surrounding session layer *)

\* nc_enddef: leave define mode and write every dirty attribute to the file
NC4_enddef(S) ==
    [S EXCEPT !.h5.flags_indef = FALSE,
              !.store = @ \cup UNION {{<<v, S.list[v][i].name>> :
                                          i \in {j \in 1..Len(S.list[v]) : S.list[v][j].dirty}} :
                                      v \in Varids},
              !.list = [v \in Varids |->
                          [i \in 1..Len(S.list[v]) |->
                              IF S.list[v][i].dirty
                              THEN [S.list[v][i] EXCEPT !.dirty = FALSE, !.created = TRUE]
                              ELSE S.list[v][i]]]]

-----------------------------------------------------------------------------
(* The calls *)

NoCall == [op |-> "none", varid |-> NC_GLOBAL, name |-> "", newname |-> "",
           file_type |-> NC_NAT, mem_type |-> NC_NAT, len |-> 0, din |-> NULL,
           attnum |-> -1, ret |-> "NC_NOERR", out |-> NoOut, attname |-> ""]

Running == last.ret \notin Crashes

Commit(S) ==
    /\ h5' = S.h5
    /\ list' = S.list
    /\ map' = S.map
    /\ var' = S.var
    /\ store' = S.store
    /\ UNCHANGED NCIUSEHASH

\* the values a caller holds in memory, by memory type
Values(mem_type) ==
    CASE mem_type = NC_BYTE -> <<-1, 100, 5, -128>>
      [] mem_type = NC_UBYTE -> <<200, 7, 255, 0>>
      [] mem_type = NC_CHAR -> <<65, 66, 67, 68>>
      [] mem_type = NC_STRING -> <<"s", NULLSTR, "t", "">>
      [] mem_type = VLEN_T -> <<<<7>>, <<8, 9>>, << >>, <<7>>>>
      [] OTHER -> <<1, 300, -1, 70000>>

\* the arrays of len elements a caller passes
PutData(mem_type, len) ==
    {SubSeq(Values(mem_type), 1, len), SubSeq(Values(mem_type), 2, len + 1)}

UBChoices == {[crash |-> TRUE, same_type |-> FALSE, written_to |-> FALSE]} \cup
             {[crash |-> FALSE, same_type |-> s, written_to |-> w] :
                 s \in BOOLEAN, w \in BOOLEAN}

NoUB == [crash |-> TRUE, same_type |-> FALSE, written_to |-> FALSE]

Put(varid, name, file_type, len, data, mem_type, fail, ub) ==
    /\ Running
    /\ LET r == NC4_put_att(St, varid, name, file_type, len, data, mem_type, fail, ub)
       IN /\ Len(r.S.list[varid]) <= MaxAtts
          /\ Commit(r.S)
          /\ last' = [NoCall EXCEPT !.op = "put", !.varid = varid, !.name = name,
                                    !.file_type = file_type, !.mem_type = mem_type,
                                    !.len = len, !.din = data, !.ret = r.ret]

\* a get that puts the file into define mode on its way
Get_entering_define_mode(varid, name, memtype) ==
    /\ Running
    /\ LET r == NC4_get_att(St, varid, name, memtype)
       IN last' = [NoCall EXCEPT !.op = "get", !.varid = varid, !.name = name,
                                 !.mem_type = memtype, !.ret = r.ret, !.out = r.out]
    /\ h5' = NC4_redef(St).h5
    /\ UNCHANGED <<NCIUSEHASH, list, map, var, store>>

Get(varid, name, memtype) ==
    /\ Running
    /\ LET r == NC4_get_att(St, varid, name, memtype)
       IN last' = [NoCall EXCEPT !.op = "get", !.varid = varid, !.name = name,
                                 !.mem_type = memtype, !.ret = r.ret, !.out = r.out]
    /\ UNCHANGED <<NCIUSEHASH, h5, list, map, var, store>>

InqAtt(varid, name) ==
    /\ Running
    /\ LET r == NC4_inq_att(St, varid, name)
       IN last' = [NoCall EXCEPT !.op = "inq_att", !.varid = varid, !.name = name,
                                 !.ret = r.ret, !.out = r.out]
    /\ UNCHANGED <<NCIUSEHASH, h5, list, map, var, store>>

InqAttid(varid, name) ==
    /\ Running
    /\ LET r == NC4_inq_attid(St, varid, name)
       IN last' = [NoCall EXCEPT !.op = "inq_attid", !.varid = varid, !.name = name,
                                 !.ret = r.ret, !.out = r.out]
    /\ UNCHANGED <<NCIUSEHASH, h5, list, map, var, store>>

InqAttname(varid, attnum) ==
    /\ Running
    /\ LET r == NC4_inq_attname(St, varid, attnum)
       IN last' = [NoCall EXCEPT !.op = "inq_attname", !.varid = varid,
                                 !.attnum = attnum, !.ret = r.ret, !.attname = r.name]
    /\ UNCHANGED <<NCIUSEHASH, h5, list, map, var, store>>

Rename(varid, name, newname, ioerr) ==
    /\ Running
    /\ LET r == NC4_rename_att(St, varid, name, newname, ioerr)
       IN /\ Commit(r.S)
          /\ last' = [NoCall EXCEPT !.op = "rename", !.varid = varid, !.name = name,
                                    !.newname = newname, !.ret = r.ret]

Del(varid, name, ndebug) ==
    /\ Running
    /\ LET r == NC4_del_att(St, varid, name, ndebug)
       IN /\ Commit(r.S)
          /\ last' = [NoCall EXCEPT !.op = "del", !.varid = varid, !.name = name,
                                    !.ret = r.ret]

Enddef ==
    /\ Running
    /\ h5.flags_indef
    /\ Commit(NC4_enddef(St))
    /\ last' = [NoCall EXCEPT !.op = "enddef"]

Redef ==
    /\ Running
    /\ ~h5.flags_indef /\ ~h5.no_write
    /\ Commit(NC4_redef(St))
    /\ last' = [NoCall EXCEPT !.op = "redef"]

\* nc_put_var on varid 0: the variable now holds written data
WriteData ==
    /\ Running
    /\ ~h5.no_write /\ ~var.written_to
    /\ var' = [var EXCEPT !.written_to = TRUE]
    /\ last' = [NoCall EXCEPT !.op = "put_var", !.varid = 0]
    /\ UNCHANGED <<NCIUSEHASH, h5, list, map, store>>

-----------------------------------------------------------------------------
(* The file after nc_create (define mode, writable) or after nc_open of a  *)
(* file without attributes in read-only mode                               *)

File(classic, no_write, version, superblock, isnetcdf4) ==
    [flags_indef |-> ~no_write, cmode_classic |-> classic, no_write |-> no_write,
     propattr_version |-> version, superblockversion |-> superblock,
     isnetcdf4 |-> isnetcdf4]

InitFiles(builds, files) ==
    /\ NCIUSEHASH \in builds
    /\ h5 \in files
    /\ list = [v \in Varids |-> ncindexnew(0).list]
    /\ map = [v \in Varids |-> ncindexnew(0).map]
    /\ var = [xtype |-> NC_INT, written_to |-> FALSE, fill_value |-> NULL,
              attr_dirty |-> FALSE]
    /\ store = {}
    /\ last = NoCall

-----------------------------------------------------------------------------
(* Spec: the attribute index under put, rename and delete of int attributes *)

IndexNames == {"a", "b", "c"}

Init == InitFiles(BOOLEAN, {File(c, w, 1, 2, 1) : c \in BOOLEAN, w \in BOOLEAN})

Next ==
    \/ \E n \in IndexNames : Put(NC_GLOBAL, n, NC_INT, 1, <<1>>, NC_INT, "none", NoUB)
    \/ \E n \in IndexNames, m \in IndexNames : Rename(NC_GLOBAL, n, m, FALSE)
    \/ \E n \in IndexNames \cup {"a_nfd"}, d \in BOOLEAN : Del(NC_GLOBAL, n, d)
    \/ Enddef
    \/ Redef

Spec == Init /\ [][Next]_vars

-----------------------------------------------------------------------------
(* SpecData: puts of every payload class on one global attribute, with     *)
(* allocation failures, in the build with linear search (the index then    *)
(* never holds more than the one attribute)                                *)

DataTypes == {NC_INT, NC_CHAR, NC_STRING, VLEN_T}

AllocFailures == {"none", "calloc", "strdup", "malloc"}

InitData == InitFiles({FALSE}, {File(c, FALSE, 1, 2, 1) : c \in BOOLEAN})

NextData ==
    \/ \E t \in DataTypes, len \in 0..MaxLen, f \in AllocFailures :
          \E data \in PutData(t, len) : Put(NC_GLOBAL, "a", t, len, data, t, f, NoUB)
    \/ \E t \in DataTypes \cup {NC_NAT} : Get(NC_GLOBAL, "a", t)
    \/ Enddef

SpecData == InitData /\ [][NextData]_vars

-----------------------------------------------------------------------------
(* SpecReserved: the reserved computed attributes of the root group *)

ReservedNames == {NCPROPS, ISNETCDF4ATT, SUPERBLOCKATT}

InitReserved ==
    InitFiles(BOOLEAN, {File(c, w, v, sb, IF c THEN 0 ELSE 1) :
                           c \in BOOLEAN, w \in BOOLEAN, v \in {0, 1}, sb \in {0, 2}})

NextReserved ==
    \/ \E n \in {"a"} \cup ReservedNames :
          Put(NC_GLOBAL, n, NC_INT, 1, <<1>>, NC_INT, "none", NoUB)
    \/ \E n \in ReservedNames, t \in {NC_NAT, NC_CHAR, NC_INT, NC_BYTE, NC_STRING} :
          Get(NC_GLOBAL, n, t)
    \/ \E n \in {"a"} \cup ReservedNames : InqAttid(NC_GLOBAL, n)
    \/ \E n \in ReservedNames : InqAtt(NC_GLOBAL, n)
    \/ \E n \in {"a", NCPROPS}, m \in {"a", NCPROPS, ISNETCDF4ATT} :
          Rename(NC_GLOBAL, n, m, FALSE)
    \/ \E n \in {"a", NCPROPS, ISNETCDF4ATT}, d \in BOOLEAN : Del(NC_GLOBAL, n, d)
    \/ Enddef

SpecReserved == InitReserved /\ [][NextReserved]_vars

-----------------------------------------------------------------------------
(* SpecFill: the _FillValue attribute of variable 0 *)

InitFill == InitFiles({FALSE},{File(c, FALSE, 1, 2, 1) : c \in BOOLEAN})

NextFill ==
    \/ \E t \in {NC_INT, NC_BYTE}, len \in 0..MaxLen, ub \in UBChoices :
          Put(0, _FillValue, t, len, SubSeq(Values(t), 1, len), t, "none", ub)
    \/ \E t \in {NC_INT, NC_BYTE} :
          Put(NC_GLOBAL, _FillValue, t, 1, SubSeq(Values(t), 1, 1), t, "none", NoUB)
    \/ \E v \in Varids : Get(v, _FillValue, NC_NAT)
    \/ WriteData
    \/ Enddef

SpecFill == InitFill /\ [][NextFill]_vars

-----------------------------------------------------------------------------
(* SpecRename: renames among names of different lengths *)

RenameNames == {"a", "bb", "ccc"}

InitRename == InitFiles(BOOLEAN, {File(c, FALSE, 1, 2, 1) : c \in BOOLEAN})

NextRename ==
    \/ \E n \in {"a", "bb"} : Put(NC_GLOBAL, n, NC_INT, 1, <<1>>, NC_INT, "none", NoUB)
    \/ \E n \in RenameNames, m \in RenameNames \cup {"a_nfd"}, e \in BOOLEAN :
          Rename(NC_GLOBAL, n, m, e)
    \/ Enddef
    \/ Redef

SpecRename == InitRename /\ [][NextRename]_vars

-----------------------------------------------------------------------------
(* SpecGet: reading attributes of every type class as every memory type *)

GetTypes == {NC_BYTE, NC_UBYTE, NC_CHAR, NC_INT, NC_STRING}

\* the memory types a caller can hand to a put of a file type
PutMemTypes(file_type) ==
    IF file_type \in {NC_BYTE, NC_UBYTE} THEN {file_type, NC_INT} ELSE {file_type}

GetNames == {"a", "b"}

InitGet == InitFiles(BOOLEAN, {File(c, FALSE, 1, 2, 1) : c \in BOOLEAN})

\* the hashed build is explored up to as many records as there are names
GetRoom == NCIUSEHASH => Len(list[NC_GLOBAL]) < Cardinality(GetNames)

NextGet ==
    \/ \E t \in GetTypes, len \in 0..MaxLen : \E m \in PutMemTypes(t) :
          /\ GetRoom
          /\ Put(NC_GLOBAL, "a", t, len, SubSeq(Values(m), 1, len), m, "none", NoUB)
    \/ /\ GetRoom
       /\ Put(NC_GLOBAL, "b", NC_INT, 1, <<300>>, NC_INT, "none", NoUB)
    \/ \E n \in GetNames, t \in GetTypes \cup {NC_NAT} : Get(NC_GLOBAL, n, t)

SpecGet == InitGet /\ [][NextGet]_vars

\* Range errors: 300 put from int into byte and int attributes, and read back
\* under every integer type, with no cap other than MaxAtts on the list
RangeTypes == {NC_BYTE, NC_INT}

InitRange == InitFiles(BOOLEAN, {File(c, FALSE, 1, 2, 1) : c \in BOOLEAN})

NextRange ==
    \/ \E n \in GetNames, t \in RangeTypes :
          Put(NC_GLOBAL, n, t, 1, <<300>>, NC_INT, "none", NoUB)
    \/ \E n \in GetNames, t \in RangeTypes \cup {NC_UBYTE, NC_NAT} : Get(NC_GLOBAL, n, t)

SpecRange == InitRange /\ [][NextRange]_vars

\* Type validation: one attribute put under every pair of file and memory
\* type, valid or not, in and out of define mode, on files of every kind
PutTypes == {NC_NAT, NC_CHAR, NC_INT, NC_STRING}

InitTypes == InitFiles(BOOLEAN, {File(c, w, 1, 2, 1) : c \in BOOLEAN, w \in BOOLEAN})

NextTypes ==
    \/ \E t \in PutTypes, m \in PutTypes :
          Put(NC_GLOBAL, "a", t, 1,
              SubSeq(Values(IF m = NC_NAT THEN NC_INT ELSE m), 1, 1), m, "none", NoUB)
    \/ Enddef
    \/ Redef

SpecTypes == InitTypes /\ [][NextTypes]_vars

\* Life of a record: the attributes of variable 0 put, flushed, renamed and
\* deleted, with and without backend failures, in the build with linear search
LifeNames == {"a", "b"}

InitLife == InitFiles({FALSE}, {File(c, FALSE, 1, 2, 1) : c \in BOOLEAN})

NextLife ==
    \/ \E n \in LifeNames, t \in RangeTypes :
          Put(0, n, t, 1, <<300>>, NC_INT, "none", NoUB)
    \/ \E n \in LifeNames, m \in LifeNames, e \in BOOLEAN : Rename(0, n, m, e)
    \/ \E n \in LifeNames, d \in BOOLEAN : Del(0, n, d)
    \/ Enddef
    \/ Redef

SpecLife == InitLife /\ [][NextLife]_vars

\* The index by itself: ncindexadd, ncindexidel and ncindexrehash called on
\* the index of the global attributes, in both builds
Obj(name) ==
    [name |-> name, id |-> 0, nc_typeid |-> NC_INT, len |-> 0,
     data |-> NULL, stdata |-> NULL, vldata |-> NULL,
     dirty |-> FALSE, created |-> FALSE]

\* the number of DELETED entries of a hash table
Tombstones(hm) == Cardinality({i \in 0..(hm.alloc - 1) : hm.table[i].flags = DELETED})

IndexAdd(name) ==
    /\ Len(list[NC_GLOBAL]) < MaxAtts
    /\ Commit(SetIx(St, NC_GLOBAL, ncindexadd(Ix(St, NC_GLOBAL), Obj(name))))
    /\ last' = [NoCall EXCEPT !.op = "ncindexadd", !.name = name, !.ret = "1"]

IndexIdel(i) ==
    LET r == ncindexidel(Ix(St, NC_GLOBAL), i)
    IN /\ Tombstones(map[NC_GLOBAL]) < MaxTombs
       /\ Commit(SetIx(St, NC_GLOBAL, r.ix))
       /\ last' = [NoCall EXCEPT !.op = "ncindexidel", !.attnum = i,
                                 !.ret = IF r.ok THEN "1" ELSE "0"]

IndexRehash ==
    /\ Commit(SetIx(St, NC_GLOBAL, ncindexrehash(Ix(St, NC_GLOBAL))))
    /\ last' = [NoCall EXCEPT !.op = "ncindexrehash", !.ret = "1"]

IndexVerify ==
    LET r == ncindexverify(Ix(St, NC_GLOBAL))
    IN /\ Commit(SetIx(St, NC_GLOBAL, r.ix))
       /\ last' = [NoCall EXCEPT !.op = "ncindexverify",
                                 !.ret = IF r.ret = 1 THEN "1" ELSE "0"]

InitIndex == InitFiles(BOOLEAN, {File(FALSE, FALSE, 1, 2, 1)})

NextIndex ==
    \/ \E n \in GetNames : IndexAdd(n)
    \/ \E i \in 0..MaxAtts : IndexIdel(i)
    \/ IndexRehash

SpecIndex == InitIndex /\ [][NextIndex]_vars

\* The index with the calls of ncindexverify that the tests make between the
\* other calls
\* every entry is in one of the three states the hash table defines; the
\* calls on a table with any other flags are not followed
Defined(hm) ==
    \A m \in 0..(hm.alloc - 1) : hm.table[m].flags \in {EMPTY, ACTIVE, DELETED}

NextVerify ==
    \/ Defined(map[NC_GLOBAL]) /\ \E n \in GetNames : IndexAdd(n)
    \/ Defined(map[NC_GLOBAL]) /\ \E i \in 0..MaxAtts : IndexIdel(i)
    \/ Defined(map[NC_GLOBAL]) /\ IndexRehash
    \/ Defined(map[NC_GLOBAL]) /\ IndexVerify

SpecVerify == InitIndex /\ [][NextVerify]_vars

\* Reading: get and the three inquiries on global attributes that were put
\* and flushed, by names that exist, names that do not and a reserved name
ReadNames == GetNames \cup {NCPROPS}

ReadTypes == {NC_NAT, NC_BYTE, NC_CHAR}

InitRead == InitFiles(BOOLEAN, {File(c, FALSE, 1, 2, 1) : c \in BOOLEAN})

NextRead ==
    \/ \E n \in GetNames : Put(NC_GLOBAL, n, NC_INT, 1, <<300>>, NC_INT, "none", NoUB)
    \/ Enddef
    \/ \E n \in ReadNames, t \in ReadTypes : Get(NC_GLOBAL, n, t)
    \/ \E n \in ReadNames : InqAtt(NC_GLOBAL, n)
    \/ \E n \in ReadNames : InqAttid(NC_GLOBAL, n)
    \/ \E i \in 0..MaxAtts : InqAttname(NC_GLOBAL, i)

SpecRead == InitRead /\ [][NextRead]_vars

\* Files that hold attributes when they are opened, read-only or for writing:
\* nc_open reads each attribute of the file into the index with
\* nc4_att_list_add and marks it created
OpenAtts == {<< >>, <<"a">>, <<"a", "b">>, <<"b", "a">>}

RECURSIVE read_atts(_, _, _, _)
read_atts(S, varid, names, i) ==
    IF i > Len(names) THEN S
    ELSE LET S1 == nc4_att_list_add(S, varid, names[i])
             p == Len(S1.list[varid]) - 1
             att == [Att(S1, varid, p) EXCEPT !.nc_typeid = NC_INT, !.len = 1,
                                              !.data = <<300>>, !.created = TRUE]
         IN read_atts([SetAtt(S1, varid, p, att) EXCEPT
                          !.store = @ \cup {<<varid, names[i]>>}],
                      varid, names, i + 1)

\* nc_open: outside define mode, the attributes of the file in the index
nc_open(S, names) ==
    read_atts([S EXCEPT !.h5.flags_indef = FALSE], NC_GLOBAL, names, 1)

InitPerm ==
    /\ NCIUSEHASH \in BOOLEAN
    /\ last = NoCall
    /\ \E c \in BOOLEAN, w \in BOOLEAN, names \in OpenAtts :
          LET S0 == [h5 |-> File(c, w, 1, 2, 1),
                     list |-> [v \in Varids |-> ncindexnew(0).list],
                     map |-> [v \in Varids |-> ncindexnew(0).map],
                     var |-> [xtype |-> NC_INT, written_to |-> FALSE,
                              fill_value |-> NULL, attr_dirty |-> FALSE],
                     store |-> {}]
              S == nc_open(S0, names)
          IN /\ h5 = S.h5 /\ list = S.list /\ map = S.map
             /\ var = S.var /\ store = S.store

NextPerm ==
    \/ \E n \in GetNames : Put(NC_GLOBAL, n, NC_INT, 1, <<300>>, NC_INT, "none", NoUB)
    \/ \E n \in GetNames, m \in GetNames, e \in BOOLEAN : Rename(NC_GLOBAL, n, m, e)
    \/ \E n \in GetNames, d \in BOOLEAN : Del(NC_GLOBAL, n, d)
    \/ Redef

SpecPerm == InitPerm /\ [][NextPerm]_vars

-----------------------------------------------------------------------------
(* Claims on the attribute index *)

StP == [h5 |-> h5', list |-> list', map |-> map', var |-> var', store |-> store']

Live(S, varid, name) == \E i \in 1..Len(S.list[varid]) : S.list[varid][i].name = name

AllNames == IndexNames \cup {"a_nfd", _FillValue, NCPROPS, ISNETCDF4ATT, SUPERBLOCKATT}

\* C1: after every operation, in every container, lookup by the current name
\* of each live attribute returns that attribute, lookup by position returns a
\* live attribute for every position below the size, and a name that no live
\* attribute carries resolves to nothing.
C1_LookupConsistent ==
    \A v \in Varids :
        /\ \A i \in 0..(Len(list[v]) - 1) :
              /\ ncindexlookup(Ix(St, v), list[v][i + 1].name) = i
              /\ ncindexith(Ix(St, v), i) = i
        /\ \A n \in AllNames : ~Live(St, v, n) => ncindexlookup(Ix(St, v), n) = NOATT

\* C3: the n live attributes have the ids 0..n-1, each id is the position in
\* the vector, an id query by name returns that id and a name query by that
\* id returns the attribute's name.
C3_IdsArePositions ==
    \A i \in 0..(Len(list[NC_GLOBAL]) - 1) :
        LET att == list[NC_GLOBAL][i + 1]
        IN /\ att.id = i
           /\ NC4_inq_attid(St, NC_GLOBAL, att.name).ret = "NC_NOERR"
           /\ NC4_inq_attid(St, NC_GLOBAL, att.name).out.attnum = att.id
           /\ NC4_inq_attname(St, NC_GLOBAL, att.id).name = att.name

\* C4 as stated: deleting a name that is not live fails with NC_ENOTATT and
\* leaves the attributes of the container as they were.
C4_DelAbsentIsNotFound ==
    [][(last'.op = "del" /\ ~Live(St, last'.varid, last'.name))
          => (last'.ret = "NC_ENOTATT" /\ list' = list)]_vars

\* the result of NC4_del_att for a name that is not live, by the state of the file
DelAbsentResult ==
    IF h5.no_write THEN "NC_EPERM"
    ELSE IF ~h5.flags_indef /\ h5.cmode_classic THEN "NC_ENOTINDEFINE"
    ELSE "NC_ENOTATT"

\* C4 amended: deleting a name that is not live fails with NC_EPERM on a
\* read-only file, with NC_ENOTINDEFINE on a classic-model file outside define
\* mode, and with NC_ENOTATT otherwise; in each case the list, the hashmap and
\* the stored attributes are the same afterwards, and repeating the call gives
\* the same result and changes nothing.
C4_DelAbsentFails ==
    [][(last'.op = "del" /\ ~Live(St, last'.varid, last'.name))
          => /\ last'.ret = DelAbsentResult
             /\ list' = list /\ map' = map /\ store' = store
             /\ \A d \in BOOLEAN :
                   LET again == NC4_del_att(StP, last'.varid, last'.name, d)
                   IN again.ret = last'.ret /\ again.S = StP]_vars

\* C4 witness: a delete of an absent name has failed with NC_ENOTATT on a
\* container holding two attributes
C4_Witness ==
    /\ last.op = "del" /\ last.ret = "NC_ENOTATT"
    /\ ~Live(St, last.varid, last.name)
    /\ Len(list[last.varid]) >= 2

-----------------------------------------------------------------------------
(* Claims on the attribute data *)

\* the data a get has delivered, by the class of the type
Delivered(out, type) ==
    CASE nc4_get_typeclass(type) = NC_VLEN -> out.vldata
      [] nc4_get_typeclass(type) = NC_STRING -> out.stdata
      [] OTHER -> out.data

\* C2: in the state a successful put of (T, len, D) with memory type T
\* leaves, a get of the same name with memory type T or NC_NAT returns
\* success and the data D, and the inquiry reports the type T and the length len.
C2_RoundTrip ==
    (last.op = "put" /\ last.ret = "NC_NOERR" /\ last.file_type = last.mem_type)
    => /\ \A t \in {last.file_type, NC_NAT} :
             LET g == NC4_get_att(St, last.varid, last.name, t)
             IN g.ret = "NC_NOERR" /\ Delivered(g.out, last.file_type) = last.din
       /\ NC4_inq_att(St, last.varid, last.name).ret = "NC_NOERR"
       /\ NC4_inq_att(St, last.varid, last.name).out.xtype = last.file_type
       /\ NC4_inq_att(St, last.varid, last.name).out.len = last.len

\* C5: a put that returns a fatal error leaves the attributes of the
\* container as they were: no new record, and every record keeps its type,
\* length, payload, dirty and created flags.
C5_FailedPutChangesNothing ==
    [][(last'.op = "put" /\ last'.ret \notin {"NC_NOERR", "NC_ERANGE"} \cup Crashes)
          => list' = list]_vars

-----------------------------------------------------------------------------
(* Claims on the reserved computed attributes *)

\* the call just made is addressed at a reserved name of the root group
OnReserved(op) ==
    /\ last'.op = op
    /\ last'.varid = NC_GLOBAL
    /\ NC_findreserved(nc4_normalize_name(last'.name))

FileUnchanged == UNCHANGED <<h5, list, map, var, store>>

\* the enumeration of the global attributes: size and name of every number
Enumeration(S) ==
    [size |-> ncindexsize(getattlist(S, NC_GLOBAL)),
     names |-> [i \in 0..MaxAtts |-> NC4_inq_attname(S, NC_GLOBAL, i)]]

\* the value of a reserved attribute as the file state determines it
Synthesized(S, name) ==
    CASE name = NCPROPS -> <<118, S.h5.propattr_version>>
      [] name = SUPERBLOCKATT -> <<S.h5.superblockversion>>
      [] name = ISNETCDF4ATT -> <<S.h5.isnetcdf4>>

\* C6 as stated: a put on a reserved name of the root group fails with
\* NameInUse and creates no record, a get of the name succeeds with the value
\* synthesized from file state, and neither call changes the size or the
\* enumeration of the global attributes.
C6_ReservedPutGetAsStated ==
    [][/\ OnReserved("put") => last'.ret = "NC_ENAMEINUSE" /\ FileUnchanged
       /\ OnReserved("get") =>
             /\ last'.ret = "NC_NOERR"
             /\ last'.out.data = Synthesized(St, last'.name)
             /\ FileUnchanged]_vars

\* the memory types a reserved attribute can be read as
ReadableAs(name) ==
    IF name = NCPROPS THEN {NC_NAT, NC_CHAR} ELSE {NC_NAT, NC_BYTE, NC_INT, NC_UBYTE}

\* C6: a put on a reserved name of the root group creates no record and fails,
\* with NC_EPERM on a read-only file and with NC_ENAMEINUSE otherwise.  A get
\* of the name never changes the file; it succeeds with the value synthesized
\* from file state when the memory type is one the value can be read as and,
\* for _NCProperties, the file carries provenance; without provenance it fails
\* with NC_ENOTATT, and for another memory type with NC_ECHAR (_NCProperties)
\* or NC_ERANGE (the integer flags).  Size and enumeration of the global
\* attributes are the same after either call.
C6_ReservedPutGet ==
    [][/\ OnReserved("put") =>
             /\ last'.ret = IF h5.no_write THEN "NC_EPERM" ELSE "NC_ENAMEINUSE"
             /\ FileUnchanged
             /\ Enumeration(StP) = Enumeration(St)
       /\ OnReserved("get") =>
             /\ FileUnchanged
             /\ Enumeration(StP) = Enumeration(St)
             /\ last'.ret =
                   IF last'.name = NCPROPS /\ h5.propattr_version = 0 THEN "NC_ENOTATT"
                   ELSE IF last'.mem_type \in ReadableAs(last'.name) THEN "NC_NOERR"
                   ELSE IF last'.name = NCPROPS THEN "NC_ECHAR" ELSE "NC_ERANGE"
             /\ last'.ret = "NC_NOERR" =>
                   last'.out.data = Synthesized(St, last'.name)]_vars

\* a get of _NCProperties answered from file state while the index holds a
\* record
C6_Witness ==
    /\ last.op = "get" /\ last.varid = NC_GLOBAL /\ last.name = NCPROPS
    /\ last.ret = "NC_NOERR"
    /\ last.out.data = Synthesized(St, NCPROPS)
    /\ Len(list[NC_GLOBAL]) > 0

\* C7: no record of the root group's global attribute index ever carries a
\* reserved computed name, whatever puts, renames and deletes were made.
C7_NoReservedRecord ==
    \A i \in 1..Len(list[NC_GLOBAL]) : ~NC_findreserved(list[NC_GLOBAL][i].name)

\* C8: a rename whose old name is a reserved computed name, and a delete of a
\* reserved computed name, fail with NameInUse or NotAllowed and with nothing
\* else, and change nothing.
C8_ReservedRenameDelFail ==
    [][OnReserved("rename") \/ OnReserved("del") =>
          /\ last'.ret \in {"NC_ENAMEINUSE", "NC_EPERM"}
          /\ FileUnchanged]_vars

\* C9: an id query for a reserved computed name on the root group's global
\* attributes fails with NC_EATTMETA and writes no id, for every reserved name
\* and in every state of the file.
C9_ReservedIdQueryFails ==
    /\ \A n \in ReservedNames :
          NC4_inq_attid(St, NC_GLOBAL, n) = GetRet("NC_EATTMETA", NoOut)
    /\ (last.op = "inq_attid" /\ last.varid = NC_GLOBAL /\
        NC_findreserved(nc4_normalize_name(last.name))) =>
          last.ret = "NC_EATTMETA" /\ last.out.attnum = NoOut.attnum

\* an id query for _NCProperties that failed on a file with provenance and a
\* non-empty index
C9_Witness ==
    /\ last.op = "inq_attid" /\ last.varid = NC_GLOBAL /\ last.name = NCPROPS
    /\ last.ret = "NC_EATTMETA"
    /\ h5.propattr_version # 0
    /\ Len(list[NC_GLOBAL]) > 0

-----------------------------------------------------------------------------
(* Claims on the fill value *)

\* C10: a put of _FillValue on a variable, in a mode that admits the put, fails
\* with LateFillValue once the variable has written data, fails with BadValue
\* on an unwritten variable when the length is not 1 or the type is not the
\* variable's, and on success leaves the given element as the variable's
\* cached fill value.
C10_FillValuePolicy ==
    [][(last'.op = "put" /\ last'.varid = 0 /\ last'.name = _FillValue /\
        last'.ret # "NC_EINDEFINE") =>
          /\ var.written_to => last'.ret = "NC_ELATEFILL"
          /\ (~var.written_to /\ (last'.len # 1 \/ last'.file_type # var.xtype)) =>
                last'.ret \in {"NC_EINVAL", "NC_EBADTYPE"}
          /\ last'.ret = "NC_NOERR" => var'.fill_value = last'.din]_vars

-----------------------------------------------------------------------------
(* Claims on definition mode *)

\* the call just made is op on a file that can be written
OnWritable(op) == last'.op = op /\ ~h5.no_write

Rec(S, varid, name) ==
    S.list[varid][CHOOSE i \in 1..Len(S.list[varid]) : S.list[varid][i].name = name]

\* bytes a payload of len elements of a type occupies
Footprint(type, len) == len * nc4typelen(type)

\* the put just made needs define mode: the attribute is new or grows
NeedsDefineMode ==
    \/ ~Live(St, last'.varid, last'.name)
    \/ Footprint(last'.file_type, last'.len) >
          Footprint(Rec(St, last'.varid, last'.name).nc_typeid,
                    Rec(St, last'.varid, last'.name).len)

\* C12: a put outside define mode of a new attribute, or of one whose byte
\* footprint grows, fails with NotInDefineMode on a classic-model file, which
\* stays outside define mode, and on any other file first enters define mode
\* and is not refused for the mode; a put on an existing attribute that does
\* not grow is not refused for the mode and leaves the mode as it is.
C12_PutDefineMode ==
    [][(OnWritable("put") /\ ~INDEF(St)) =>
          IF NeedsDefineMode
          THEN IF CLASSIC(St)
               THEN last'.ret = "NC_ENOTINDEFINE" /\ ~INDEF(StP)
               ELSE last'.ret \notin {"NC_ENOTINDEFINE", "NC_EINDEFINE"} /\ INDEF(StP)
          ELSE last'.ret \notin {"NC_ENOTINDEFINE", "NC_EINDEFINE"} /\ ~INDEF(StP)]_vars

-----------------------------------------------------------------------------
(* Claims on rename *)

OldName == nc4_normalize_name(last'.name)

NewName == nc4_normalize_name(last'.newname)

\* the rename just made breaks the length rule of classic-model files
LengthRuleBroken ==
    /\ CLASSIC(St) /\ ~INDEF(St)
    /\ Live(St, last'.varid, OldName)
    /\ strlen(NewName) > strlen(OldName)

\* C13: a rename fails with NotInDefineMode exactly when the file is
\* classic-model, is outside define mode and the normalized new name is
\* longer than the current name of the attribute (the rename having an
\* existing attribute and a free new name); this failure changes nothing.
C13_RenameLengthRule ==
    [][OnWritable("rename") =>
          /\ last'.ret = "NC_ENOTINDEFINE" => LengthRuleBroken /\ FileUnchanged
          /\ (LengthRuleBroken /\ ~Live(St, last'.varid, NewName) /\
              nc4_check_name(last'.newname) = "NC_NOERR") =>
                last'.ret = "NC_ENOTINDEFINE"]_vars

\* what a rename must keep of a record
Kept(a) == [id |-> a.id, nc_typeid |-> a.nc_typeid, len |-> a.len, data |-> a.data,
            stdata |-> a.stdata, vldata |-> a.vldata]

\* C14: after a successful rename the old name resolves to nothing, the new
\* name resolves to the record that carried the old name, at the same
\* position and with the same id, type, length and payload, and every other
\* attribute of the container keeps its name, id and position.
C14_RenameKeepsRecord ==
    [][(OnWritable("rename") /\ last'.ret = "NC_NOERR") =>
          LET v == last'.varid
          IN /\ Len(list'[v]) = Len(list[v])
             /\ ncindexlookup(Ix(StP, v), OldName) = NOATT
             /\ \E p \in 1..Len(list[v]) :
                   /\ list[v][p].name = OldName
                   /\ ncindexlookup(Ix(StP, v), NewName) = p - 1
                   /\ list'[v][p].name = NewName
                   /\ Kept(list'[v][p]) = Kept(list[v][p])
                   /\ \A q \in 1..Len(list[v]) \ {p} :
                         /\ list'[v][q].name = list[v][q].name
                         /\ list'[v][q].id = list[v][q].id]_vars

\* the new name is carried by a live attribute other than the renamed one
TakenByAnother == Live(St, last'.varid, NewName) /\ NewName # OldName

\* C15: a rename returns NameInUse exactly when the new name is the name of
\* another live attribute of the container, renaming an attribute to its own
\* name being no conflict; it returns NotFound when the old name is absent and
\* the new name free; and neither failure changes anything.
C15_RenameNameInUse ==
    [][(OnWritable("rename") /\ nc4_check_name(last'.newname) = "NC_NOERR") =>
          /\ last'.ret = "NC_ENAMEINUSE" <=> TakenByAnother
          /\ (~Live(St, last'.varid, OldName) /\ ~Live(St, last'.varid, NewName)) =>
                last'.ret = "NC_ENOTATT"
          /\ last'.ret \in {"NC_ENAMEINUSE", "NC_ENOTATT"} => FileUnchanged]_vars

-----------------------------------------------------------------------------
(* Claims on get *)

\* the get just made found a record; Found is that record
Finds == nc4_find_grp_att(St, last'.varid, nc4_normalize_name(last'.name)) # NOATT

Found ==
    Att(St, last'.varid, nc4_find_grp_att(St, last'.varid, nc4_normalize_name(last'.name)))

\* the memory type of the get just made after NC_NAT is resolved
Requested == IF last'.mem_type = NC_NAT THEN Found.nc_typeid ELSE last'.mem_type

TextClass == {NC_CHAR, NC_STRING}

\* C16 as stated: a get fails with NC_ECHAR for every record found, of any
\* length, whenever exactly one of the stored type and the resolved requested
\* type is NC_CHAR or NC_STRING; a get as NC_NAT never fails so.
C16_GetTextMismatchAsStated ==
    [][(last'.op = "get" /\ Finds) =>
          /\ ((Found.nc_typeid \in TextClass) # (Requested \in TextClass)) =>
                last'.ret = "NC_ECHAR"
          /\ last'.mem_type = NC_NAT => last'.ret # "NC_ECHAR"]_vars

\* C16: a get of data fails with NC_ECHAR exactly when the record the name
\* resolves to has a length other than zero and exactly one of its type and
\* the resolved requested type is NC_CHAR (NC_STRING is not tested), which
\* includes a stored 8-bit integer requested as NC_CHAR; a zero-length record
\* and a get as NC_NAT never fail so; the failed get delivers nothing.
C16_GetTextMismatch ==
    [][(last'.op = "get" /\ Finds) =>
          /\ last'.ret = "NC_ECHAR" <=>
                (Found.len # 0 /\ ((Found.nc_typeid = NC_CHAR) # (Requested = NC_CHAR)))
          /\ last'.mem_type = NC_NAT => last'.ret # "NC_ECHAR"
          /\ last'.ret = "NC_ECHAR" => last'.out = NoOut]_vars

\* a stored signed byte requested as text and refused
C16_Witness ==
    /\ last.op = "get" /\ last.ret = "NC_ECHAR" /\ last.mem_type = NC_CHAR
    /\ \E i \in 1..Len(list[NC_GLOBAL]) :
          /\ list[NC_GLOBAL][i].name = last.name
          /\ list[NC_GLOBAL][i].nc_typeid = NC_BYTE

\* every record that carries the name of the get just made is empty
EmptyRecord ==
    /\ Live(St, last'.varid, last'.name)
    /\ \A i \in 1..Len(list[last'.varid]) :
          list[last'.varid][i].name = last'.name => list[last'.varid][i].len = 0

\* C17: a get of an existing record of length zero returns NC_NOERR and
\* writes nothing to the caller's buffer, whatever type is requested, so it
\* converts nothing and never returns NC_ERANGE; the inquiry of the same name
\* reports the length 0 and the stored type.
C17_GetZeroLength ==
    [][(last'.op = "get" /\ EmptyRecord) =>
          /\ last'.ret = "NC_NOERR"
          /\ last'.out = NoOut
          /\ LET q == NC4_inq_att(St, last'.varid, last'.name)
             IN /\ q.ret = "NC_NOERR"
                /\ q.out.len = 0
                /\ q.out.xtype = Rec(St, last'.varid, last'.name).nc_typeid]_vars

EightBit == {NC_BYTE, NC_UBYTE}

\* the get just made converted the data of the record it found
Converts ==
    /\ Finds
    /\ Found.len # 0
    /\ Requested # Found.nc_typeid
    /\ Found.nc_typeid \notin TextClass
    /\ Requested \notin TextClass

\* an element of the record found does not fit the requested type
Overflowed ==
    /\ Converts
    /\ \E i \in 1..Len(Found.data) :
          Found.data[i] < TypeMin(Requested) \/ Found.data[i] > TypeMax(Requested)

\* the classic model's exception for the two 8-bit integer types
Suppressed == CLASSIC(St) /\ Found.nc_typeid \in EightBit /\ Requested \in EightBit

\* C18: a get returns NC_ERANGE if and only if it converted the record to a
\* different requested type and at least one element did not fit, unless the
\* file is classic and both types are 8-bit integers, in which case it
\* returns NC_NOERR; no other pair of types and no file that is not classic
\* has the warning suppressed.
C18_GetRangeWarning ==
    [][last'.op = "get" =>
          /\ last'.ret = "NC_ERANGE" <=> (Overflowed /\ ~Suppressed)
          /\ (Overflowed /\ Suppressed) => last'.ret = "NC_NOERR"]_vars

\* a classic file: a stored signed byte -1 read as unsigned byte without warning
C18_Witness ==
    /\ last.op = "get" /\ last.ret = "NC_NOERR" /\ last.mem_type = NC_UBYTE
    /\ h5.cmode_classic
    /\ last.out.data # NULL
    /\ \E i \in 1..Len(last.out.data) : last.out.data[i] = 255

\* the put just made ran its conversion and an element of the caller's data
\* does not fit the file type
PutOverflowed ==
    /\ last'.op = "put"
    /\ last'.ret \in {"NC_NOERR", "NC_ERANGE"}
    /\ last'.len # 0
    /\ last'.file_type \notin TextClass
    /\ \E i \in 1..Len(last'.din) :
          last'.din[i] < TypeMin(last'.file_type) \/ last'.din[i] > TypeMax(last'.file_type)

\* the attribute list holds a dirty record of the put just made, with the
\* file type, the length and the converted data
PutStored ==
    \E i \in 1..Len(list'[last'.varid]) :
       LET att == list'[last'.varid][i]
       IN /\ att.name = nc4_normalize_name(last'.name)
          /\ att.nc_typeid = last'.file_type
          /\ att.len = last'.len
          /\ att.data = [k \in 1..Len(last'.din) |-> Cast(last'.din[k], last'.file_type)]
          /\ att.dirty

\* what a get of type, length and data delivers for the name of the get just made
FullGet ==
    nc4_get_att(St, last'.varid, last'.name, last'.mem_type, Want(TRUE, TRUE, FALSE, TRUE))

\* C19: NC_ERANGE is never dropped and never fatal.  A put whose conversion
\* overflows returns NC_ERANGE, not NC_NOERR, and the record is in the list
\* afterwards with the given file type and length, the converted data and
\* dirty set.  A get whose conversion overflows, outside the classic 8-bit
\* exception, returns NC_ERANGE and has delivered the converted data, and
\* with them the stored type and length when they are asked for.
C19_RangeWarningKept ==
    [][/\ PutOverflowed => (last'.ret = "NC_ERANGE" /\ PutStored)
       /\ (last'.op = "get" /\ Overflowed /\ ~Suppressed) =>
             /\ last'.ret = "NC_ERANGE"
             /\ last'.out.data =
                   [k \in 1..Len(Found.data) |-> Cast(Found.data[k], Requested)]
             /\ FullGet.ret = "NC_ERANGE"
             /\ FullGet.out.xtype = Found.nc_typeid
             /\ FullGet.out.len = Found.len
             /\ FullGet.out.data = last'.out.data]_vars

-----------------------------------------------------------------------------
(* Claims on the types of a put *)

\* the put just made got as far as the type validation: the file is
\* writable, the name is acceptable and define mode is there or can be entered
ReachesTypeCheck ==
    /\ last'.op = "put"
    /\ ~h5.no_write
    /\ nc4_check_name(last'.name) = "NC_NOERR"
    /\ ~(last'.varid = NC_GLOBAL /\ NC_findreserved(last'.name))
    /\ INDEF(St) \/ ~CLASSIC(St)

\* the error the claim names for a pair of types in a file, in its order
TypeError(classic, file_type, mem_type) ==
    IF NC_NAT \in {file_type, mem_type} THEN "NC_EBADTYPE"
    ELSE IF file_type # mem_type /\ {file_type, mem_type} \cap TextClass # {}
    THEN "NC_ECHAR"
    ELSE IF classic /\ file_type > NC_DOUBLE THEN "NC_ESTRICTNC3"
    ELSE "NC_NOERR"

-----------------------------------------------------------------------------
(* Claims on the life of a record *)

\* the call just made is a put or a rename that succeeded
Stored ==
    \/ last'.op = "put" /\ last'.ret \in {"NC_NOERR", "NC_ERANGE"}
    \/ last'.op = "rename" /\ last'.ret = "NC_NOERR"

\* the name under which the call just made leaves its record
StoredName ==
    nc4_normalize_name(IF last'.op = "rename" THEN last'.newname ELSE last'.name)

\* the names of the records of a container that are marked created
CreatedNames(l) == {l[i].name : i \in {j \in 1..Len(l) : l[j].created}}

\* C21: after every successful put (NC_ERANGE included) and every successful
\* rename the record is dirty and not created, and when it is an attribute
\* of a variable the variable's attr_dirty is set; no call other than the
\* flush of nc_enddef marks a record created.
C21_StoredIsUncommitted ==
    [][/\ Stored =>
             /\ Live(StP, last'.varid, StoredName)
             /\ Rec(StP, last'.varid, StoredName).dirty
             /\ ~Rec(StP, last'.varid, StoredName).created
             /\ last'.varid # NC_GLOBAL => var'.attr_dirty
       /\ last'.op # "enddef" =>
             \A v \in Varids : CreatedNames(list'[v]) \subseteq CreatedNames(list[v])]_vars

\* the payload fields of a record that hold something
Populated(att) ==
    (IF att.data # NULL THEN {"data"} ELSE {}) \cup
    (IF att.stdata # NULL THEN {"stdata"} ELSE {}) \cup
    (IF att.vldata # NULL THEN {"vldata"} ELSE {})

\* the payload field that belongs to the class of a type
ClassField(type) ==
    CASE nc4_get_typeclass(type) = NC_VLEN -> "vldata"
      [] nc4_get_typeclass(type) = NC_STRING -> "stdata"
      [] OTHER -> "data"

\* C22: after a successful put, whatever the type class of the puts before
\* it, at most one of data, stdata and vldata of the record is populated, and
\* for a record of nonzero length it is the one of the class of the record's
\* type.
C22_OnePayload ==
    [][(last'.op = "put" /\ last'.ret \in {"NC_NOERR", "NC_ERANGE"}) =>
          LET att == Rec(StP, last'.varid, nc4_normalize_name(last'.name))
          IN /\ Cardinality(Populated(att)) <= 1
             /\ att.len # 0 => Populated(att) = {ClassField(att.nc_typeid)}]_vars

\* the delete just made was of an attribute of the list, on a file where
\* define mode is there or can be entered
DelOfLive ==
    /\ last'.op = "del"
    /\ ~h5.no_write
    /\ INDEF(St) \/ ~CLASSIC(St)
    /\ Live(St, last'.varid, last'.name)

\* C23: a delete of an attribute that is created removes it from the file
\* (once: the file no longer holds it) and, the removal done, takes the
\* record off the list and returns NC_NOERR; a delete of an attribute that is
\* not created leaves the file alone; when the file refuses the removal the
\* list stays as it was.
C23_DelRemovesFromFile ==
    [][DelOfLive =>
          LET att == Rec(St, last'.varid, last'.name)
              held == <<last'.varid, att.name>> \in store
          IN /\ (att.created /\ held) =>
                   /\ last'.ret = "NC_NOERR"
                   /\ store' = store \ {<<last'.varid, att.name>>}
                   /\ ~Live(StP, last'.varid, last'.name)
             /\ (att.created /\ ~held) => (last'.ret # "NC_NOERR" /\ list' = list)
             /\ ~att.created =>
                   /\ last'.ret = "NC_NOERR"
                   /\ store' = store
                   /\ ~Live(StP, last'.varid, last'.name)]_vars

\* C24: at every point of a sequence of put, flush, rename and delete, a
\* record is created if and only if the file holds an attribute of its
\* container under its current name, and the file holds no attribute under a
\* name that no created record of the container carries.
C24_CreatedIffInFile ==
    \A v \in Varids :
       /\ \A i \in 1..Len(list[v]) :
             list[v][i].created <=> <<v, list[v][i].name>> \in store
       /\ \A n \in LifeNames : <<v, n>> \in store => n \in CreatedNames(list[v])

-----------------------------------------------------------------------------
(* Claims on ncindexadd, ncindexidel and the hash table *)

\* C25: ncindexadd of an object whose name is not in the index appends it at
\* the position p that was the length before, and directly afterwards
\* ncindexlookup of its name returns that position p, for every size of the
\* index, the empty index included.
C25_AddThenLookup ==
    [][(last'.op = "ncindexadd" /\ ~Live(St, NC_GLOBAL, last'.name)) =>
          /\ Len(list'[NC_GLOBAL]) = Len(list[NC_GLOBAL]) + 1
          /\ list'[NC_GLOBAL][Len(list'[NC_GLOBAL])].name = last'.name
          /\ ncindexlookup(Ix(StP, NC_GLOBAL), last'.name) = Len(list[NC_GLOBAL])]_vars

\* no two objects of a vector carry the same name
NoDuplicates(l) == \A i, j \in 1..Len(l) : l[i].name = l[j].name => i = j

\* C26: ncindexadd of an object whose name is already in the index returns 0
\* and leaves the vector and the hash table as they were, so that after any
\* sequence of adds no two objects of the index carry the same name.
C26_AddRejectsDuplicate ==
    [][last'.op = "ncindexadd" =>
          /\ Live(St, NC_GLOBAL, last'.name) =>
                (last'.ret = "0" /\ list' = list /\ map' = map)
          /\ NoDuplicates(list[NC_GLOBAL]) => NoDuplicates(list'[NC_GLOBAL])]_vars

\* C27: directly after ncindexidel(index, i) has returned 1 on an index
\* without duplicate names, and before any rebuild, the name of the object
\* removed resolves to nothing and ncindexlookup of the name of every object
\* that remains, those shifted down included, returns that object.
C27_IdelConsistent ==
    [][(last'.op = "ncindexidel" /\ last'.ret = "1" /\ NoDuplicates(list[NC_GLOBAL])) =>
          /\ ncindexlookup(Ix(StP, NC_GLOBAL), list[NC_GLOBAL][last'.attnum + 1].name) = NOATT
          /\ \A k \in 1..Len(list'[NC_GLOBAL]) :
                ncindexlookup(Ix(StP, NC_GLOBAL), list'[NC_GLOBAL][k].name) = k - 1]_vars

\* the keys of the ACTIVE entries of a hash table
ActiveKeys(hm) ==
    {hm.table[i].key : i \in {j \in 0..(hm.alloc - 1) : hm.table[j].flags = ACTIVE}}

\* every ACTIVE entry is the one the lookup of its key ends at
AllFound(hm) ==
    \A i \in 0..(hm.alloc - 1) :
       hm.table[i].flags = ACTIVE =>
          /\ NC_hashmapget(hm, hm.table[i].key).found
          /\ hashslot(hm, hm.table[i].key) = i

\* C28: after any sequence of inserts and deletes the lookup of every key
\* that is in the hash table finds its entry, also when entries earlier on
\* its probe path have been deleted; and when an insert has grown the table,
\* every key that was in it is still found and no DELETED entry is left.
C28_TombstonesKeepKeysReachable ==
    /\ [](\A v \in Varids : AllFound(map[v]))
    /\ [][(last'.op = "ncindexadd" /\ map'[NC_GLOBAL].alloc > map[NC_GLOBAL].alloc) =>
             /\ Tombstones(map'[NC_GLOBAL]) = 0
             /\ ActiveKeys(map[NC_GLOBAL]) \subseteq ActiveKeys(map'[NC_GLOBAL])
             /\ AllFound(map'[NC_GLOBAL])]_vars

\* a key is found in a slot past its home slot, which holds a DELETED entry
C28_Witness ==
    LET hm == map[NC_GLOBAL]
    IN \E i \in 0..(hm.alloc - 1) :
          /\ hm.table[i].flags = ACTIVE
          /\ i # NC_hashmapkey(hm.table[i].key) % hm.alloc
          /\ hm.table[NC_hashmapkey(hm.table[i].key) % hm.alloc].flags = DELETED
          /\ NC_hashmapget(hm, hm.table[i].key).found

-----------------------------------------------------------------------------
(* Claims on reading *)

ReadOps == {"get", "inq_att", "inq_attid", "inq_attname"}

\* what every get, inquiry and index lookup answers in a state
Answers(S) ==
    [get |-> [n \in ReadNames, t \in ReadTypes |-> NC4_get_att(S, NC_GLOBAL, n, t)],
     inq_att |-> [n \in ReadNames |-> NC4_inq_att(S, NC_GLOBAL, n)],
     inq_attid |-> [n \in ReadNames |-> NC4_inq_attid(S, NC_GLOBAL, n)],
     inq_attname |-> [i \in 0..MaxAtts |-> NC4_inq_attname(S, NC_GLOBAL, i)],
     ncindexlookup |-> [n \in ReadNames |-> ncindexlookup(Ix(S, NC_GLOBAL), n)],
     ncindexith |-> [i \in 0..MaxAtts |-> ncindexith(Ix(S, NC_GLOBAL), i)]]

-----------------------------------------------------------------------------
(* Claims on failed calls *)

WriteOps == {"put", "rename", "del"}

\* C30: a put, a rename or a delete that returns an error other than
\* NC_ERANGE leaves the define-mode flag of the file as it was before the
\* call.
C30_ErrorsKeepDefineMode ==
    [][(/\ last'.op \in WriteOps
        /\ last'.ret \notin {"NC_NOERR", "NC_ERANGE"}
        /\ last'.ret \notin Crashes)
       => h5'.flags_indef = h5.flags_indef]_vars

-----------------------------------------------------------------------------
(* Claims on read-only files *)

\* C31: on a file opened read-only, a put, a rename or a delete whose
\* arguments pass the checks ahead of the permission test returns NC_EPERM
\* and leaves the index, every record, the variable, the define-mode flag and
\* the contents of the file as they were.
C31_ReadOnlyRefuses ==
    [][(last'.op \in WriteOps /\ h5.no_write)
       => (last'.ret = "NC_EPERM" /\ FileUnchanged)]_vars

\* a delete refused on a read-only file, outside define mode, that holds the
\* attribute named
C31_Witness ==
    /\ last.op = "del" /\ last.ret = "NC_EPERM"
    /\ h5.no_write /\ ~h5.flags_indef /\ ~h5.cmode_classic
    /\ <<NC_GLOBAL, last.name>> \in store
    /\ Len(list[NC_GLOBAL]) = 2

-----------------------------------------------------------------------------
(* Claims on ncindexverify *)

\* every active entry, in any slot, refers to a vector position whose object
\* bears the entry's key, and every vector position has exactly one active
\* entry
Consistent(ix) ==
    /\ \A m \in 0..(ix.map.alloc - 1) :
          ix.map.table[m].flags = ACTIVE =>
             /\ nclistget(ix.list, ix.map.table[m].data) # NOATT
             /\ ix.list[ix.map.table[m].data + 1].name = ix.map.table[m].key
    /\ \A i \in 0..(Len(ix.list) - 1) :
          Cardinality({m \in 0..(ix.map.alloc - 1) :
              ix.map.table[m].flags = ACTIVE /\ ix.map.table[m].data = i}) = 1

\* C32: in the build with the hash table, ncindexverify returns 1 exactly
\* when the index is consistent in both directions, and it leaves the flags
\* of the hash entries as they were.
C32_VerifyIsBidirectional ==
    [][(last'.op = "ncindexverify" /\ NCIUSEHASH)
       => /\ (last'.ret = "1") <=> Consistent(Ix(St, NC_GLOBAL))
          /\ map' = map]_vars

=============================================================================
